---- MODULE Spec2Model ----
(***************************************************************************)
(* The match engine of the Imposter party game                             *)
(* (src/contexts/game-context.tsx): the GameState object held by           *)
(* useState, and every action of GameProvider as a function from the       *)
(* previous GameState (`prev`) to the next one, as the setState updaters   *)
(* of the source compute it.                                               *)
(*                                                                         *)
(* Conventions.  Indices are 0-based as in the source; TLA+ sequences are  *)
(* 1-based, so the element at source index i is seq[i + 1].  Player ids    *)
(* are opaque fresh values; the model draws them from a counter.           *)
(***************************************************************************)
EXTENDS Integers, Sequences, FiniteSets, TLC

VARIABLES
    state,      \* the GameState of useState<GameState>(initialState)
    nextId,     \* the ids generateId() has handed out so far are 1..nextId-1
    rendered,   \* what the closures of the last render captured from state
    threw,      \* TRUE once a setState updater has thrown (the app is down)
    caught,     \* the local isImposterCaught of the last submitVotes
    last,       \* the last action invoked: its name and its numeric argument
    stored,     \* what AsyncStorage holds under CUSTOM_CATEGORIES_KEY
    logged,     \* what the last action wrote with console.error, "" if nothing
    unsaved     \* the arrays of the setItem calls AsyncStorage has not served yet

vars == <<state, nextId, rendered, threw, caught, last, stored, logged, unsaved>>

-----------------------------------------------------------------------------
(* Bounds of the model. *)

\* The roster never grows beyond this many players.
MaxPlayers == 6
\* generateId() is called at most this many times.
MaxIds == 7
\* A score is not pushed beyond this value.
MaxScore == 6
\* A round is set up with at most this many players.
RoundPlayers == 3
\* customCategories never holds more than this many categories.
MaxCustom == 2
\* At most this many setItem calls are outstanding at a time.
MaxUnsaved == 2

-----------------------------------------------------------------------------
(* Values of the source's types. *)

\* enum GamePhase
PLAYER_SETUP == "PLAYER_SETUP"
SETUP == "SETUP"
REVEAL == "REVEAL"
DISCUSSION == "DISCUSSION"
VOTING == "VOTING"
RESULTS == "RESULTS"
GamePhase == {PLAYER_SETUP, SETUP, REVEAL, DISCUSSION, VOTING, RESULTS}

\* type ImposterWordMode
ImposterWordMode == {"hidden", "no_hint", "category_hint", "user_hint"}

\* null, undefined and NaN where the source stores them in a number field.
Null == -1
Undefined == -2
NaN == -3
\* null in the string field hintWord.
NullStr == "<null>"

\* What AsyncStorage.getItem(CUSTOM_CATEGORIES_KEY) resolves to: null when the
\* key was never written, a string JSON.parse rejects, or the JSON text of an
\* array of categories, held as the array it parses to.
Absent == [kind |-> "absent", categories |-> <<>>]
Corrupt == [kind |-> "corrupt", categories |-> <<>>]
Blob(categories) == [kind |-> "json", categories |-> categories]
\* getItem itself rejects.
Unreadable == [kind |-> "rejected", categories |-> <<>>]

\* The categories the word source supplies: id, name, words.
Categories ==
    { [id |-> "food", name |-> "Food", words |-> <<"pizza", "pasta">>],
      [id |-> "sport", name |-> "Sport", words |-> <<"golf", "polo">>] }

\* getRandomWordPair(category): two distinct words of the category.
getRandomWordPair(category) ==
    { [realWord |-> category.words[i], imposterWord |-> category.words[j]] :
        <<i, j>> \in { p \in (1..Len(category.words)) \X (1..Len(category.words)) :
                        p[1] # p[2] } }

-----------------------------------------------------------------------------
(* Sequence helpers standing for the array methods the source uses. *)

Range(s) == { s[i] : i \in 1..Len(s) }

\* array.includes(x)
Includes(s, x) == \E i \in 1..Len(s) : s[i] = x

\* array.slice(0, n)
Slice0(s, n) == SubSeq(s, 1, IF n < Len(s) THEN n ELSE Len(s))

\* Array.from({ length: n }, (_, i) => i)
Indices(n) == [i \in 1..n |-> i - 1]

\* new Array(n).fill(false)
AllFalse(n) == [i \in 1..n |-> FALSE]

Min(a, b) == IF a < b THEN a ELSE b
Max(a, b) == IF a > b THEN a ELSE b

-----------------------------------------------------------------------------
(* Secure randomization. *)

\* secureRandom(max): array[0] % max over a Uint32 draw; with max = 0 the
\* remainder is NaN on the crypto path and Math.floor(Math.random() * 0) = 0
\* on the fallback path.
secureRandom(max) == IF max > 0 THEN 0..(max - 1) ELSE {NaN, 0}

\* One run of the loop of secureShuffle: i goes from length-1 down to 1 and
\* result[i] is swapped with result[j], j = draws[i] in 0..i.
RECURSIVE FisherYates(_, _, _)
FisherYates(result, i, draws) ==
    IF i <= 0 THEN result
    ELSE LET j == draws[i]
             swapped == [result EXCEPT ![i + 1] = result[j + 1],
                                       ![j + 1] = result[i + 1]]
         IN  FisherYates(swapped, i - 1, draws)

\* The draws one call of secureShuffle on n elements can make.
ShuffleDraws(n) == { d \in [1..(n - 1) -> 0..(n - 1)] : \A i \in 1..(n - 1) : d[i] <= i }

\* secureShuffle(array): every result the draws can produce.
secureShuffle(array) ==
    { FisherYates(array, Len(array) - 1, d) : d \in ShuffleDraws(Len(array)) }

-----------------------------------------------------------------------------
(* The initial state. *)

initialState ==
    [ players |-> <<>>,
      selectedCategories |-> <<>>,
      randomizeStartingPlayer |-> TRUE,
      imposterCount |-> 1,
      imposterWordMode |-> "hidden",
      customCategories |-> <<>>,
      isLoadingCategories |-> TRUE,
      isVotingEnabled |-> TRUE,
      phase |-> PLAYER_SETUP,
      roundNumber |-> 1,
      realWord |-> "",
      imposterWord |-> "",
      revealPass |-> 1,
      allHints |-> <<>>,
      hintWord |-> NullStr,
      hintGiverIndex |-> Null,
      imposterIndices |-> <<>>,
      currentPlayerIndex |-> 0,
      currentVoterIndex |-> 0,
      startingPlayerIndex |-> Null,
      revealedPlayers |-> <<>>,
      votes |-> {},
      playerOrder |-> <<>>,
      revealOrder |-> <<>>,
      lastFirstPlayerIndex |-> Null,
      isHandoverComplete |-> FALSE ]

\* What a render's closures capture for the guards of startGame and nextRound:
\* state.selectedCategories.length and state.players.length.
Snapshot(s) == [ categories |-> Len(s.selectedCategories), players |-> Len(s.players) ]

-----------------------------------------------------------------------------
(* Setup actions, each as its setState updater: prev |-> next. *)

\* The placeholder name `Player ${n}`.
PlaceholderName(n) ==
    <<"Player 1", "Player 2", "Player 3", "Player 4",
      "Player 5", "Player 6", "Player 7", "Player 8">>[n]

addPlayer(prev, id, name) ==
    [prev EXCEPT !.players =
        Append(prev.players,
               [ id |-> id,
                 name |-> IF name = "" THEN PlaceholderName(Len(prev.players) + 1) ELSE name,
                 score |-> 0,
                 isImposter |-> FALSE,
                 isDead |-> FALSE ])]

removePlayer(prev, id) ==
    LET keep(p) == p.id # id
    IN  [prev EXCEPT !.players = SelectSeq(prev.players, keep)]

updatePlayerName(prev, id, name) ==
    [prev EXCEPT !.players =
        [i \in 1..Len(prev.players) |->
            IF prev.players[i].id = id
            THEN [prev.players[i] EXCEPT !.name = name]
            ELSE prev.players[i]]]

\* toggleCategory that adds the category without looking for its id.
toggleCategoryAlwaysAdding(prev, category) ==
    [prev EXCEPT !.selectedCategories = Append(prev.selectedCategories, category)]

toggleCategory(prev, category) ==
    LET isSelected == \E i \in 1..Len(prev.selectedCategories) :
                          prev.selectedCategories[i].id = category.id
        keep(c) == c.id # category.id
    IN  [prev EXCEPT !.selectedCategories =
            IF isSelected
            THEN SelectSeq(prev.selectedCategories, keep)
            ELSE Append(prev.selectedCategories, category)]

setRandomizeStartingPlayer(prev, value) ==
    [prev EXCEPT !.randomizeStartingPlayer = value]

\* Math.floor(prev.players.length / 3) || 1
maxImposters(playerCount) ==
    IF playerCount \div 3 = 0 THEN 1 ELSE playerCount \div 3

\* setImposterCount without the lower clamp Math.max(1, ...).
setImposterCountNoLowerClamp(prev, count) ==
    [prev EXCEPT !.imposterCount = Min(count, maxImposters(Len(prev.players)))]

setImposterCount(prev, count) ==
    [prev EXCEPT !.imposterCount =
        Max(1, Min(count, maxImposters(Len(prev.players))))]

setImposterWordMode(prev, mode) == [prev EXCEPT !.imposterWordMode = mode]

setVotingEnabled(prev, enabled) == [prev EXCEPT !.isVotingEnabled = enabled]

setHintWord(prev, word) == [prev EXCEPT !.hintWord = word]

\* addHint that puts the hint in front of the others.
addHintPrepending(prev, hint) == [prev EXCEPT !.allHints = <<hint>> \o prev.allHints]

addHint(prev, hint) == [prev EXCEPT !.allHints = Append(prev.allHints, hint)]

resetPlayers(prev) ==
    [prev EXCEPT !.players = <<>>,
                 !.phase = PLAYER_SETUP,
                 !.isHandoverComplete = FALSE]

completePlayerSetup(prev) ==
    [prev EXCEPT !.phase = SETUP, !.isHandoverComplete = FALSE]

setHandoverComplete(prev, complete) == [prev EXCEPT !.isHandoverComplete = complete]


-----------------------------------------------------------------------------
(* Category management. *)

\* loadCategories without the else branch: a null item leaves
\* isLoadingCategories as it is.
loadCategoriesWaitingOnNull(prev, item) ==
    IF item.kind = "json"
    THEN [prev EXCEPT !.customCategories = item.categories,
                      !.isLoadingCategories = FALSE]
    ELSE IF item.kind = "absent"
    THEN prev
    ELSE [prev EXCEPT !.isLoadingCategories = FALSE]

\* loadCategories with a catch block that leaves isLoadingCategories as it is.
loadCategoriesStuckOnFailure(prev, item) ==
    IF item.kind = "json"
    THEN [prev EXCEPT !.customCategories = item.categories,
                      !.isLoadingCategories = FALSE]
    ELSE IF item.kind = "absent"
    THEN [prev EXCEPT !.isLoadingCategories = FALSE]
    ELSE prev

\* The setState of loadCategories, item being what getItem gave: the stored
\* array is taken when JSON.parse accepts the item; a null item, a rejected
\* getItem and a throwing JSON.parse all end in isLoadingCategories: false.
loadCategories(prev, item) ==
    IF item.kind = "json"
    THEN [prev EXCEPT !.customCategories = item.categories,
                      !.isLoadingCategories = FALSE]
    ELSE [prev EXCEPT !.isLoadingCategories = FALSE]

\* loadCategories reaches its catch block.
loadCategoriesFails(item) == item.kind \in {"corrupt", "rejected"}

\* saveCategories(categories): what the store holds afterwards; a rejected
\* setItem leaves it as it was.
saveCategories(current, categories, rejects) ==
    IF rejects THEN current ELSE Blob(categories)

addCategory(prev, newCategory) ==
    [prev EXCEPT !.customCategories = Append(prev.customCategories, newCategory)]

\* { ...cat, ...updates }
Merged(cat, updates) ==
    [f \in DOMAIN cat |-> IF f \in DOMAIN updates THEN updates[f] ELSE cat[f]]

updateCategory(prev, id, updates) ==
    [prev EXCEPT !.customCategories =
        [i \in 1..Len(prev.customCategories) |->
            IF prev.customCategories[i].id = id
            THEN Merged(prev.customCategories[i], updates)
            ELSE prev.customCategories[i]]]

removeCategory(prev, id) ==
    LET keep(c) == c.id # id
        isSelected == \E i \in 1..Len(prev.selectedCategories) :
                          prev.selectedCategories[i].id = id
    IN  [prev EXCEPT !.customCategories = SelectSeq(prev.customCategories, keep),
                     !.selectedCategories =
                         IF isSelected THEN SelectSeq(prev.selectedCategories, keep)
                         ELSE prev.selectedCategories]

-----------------------------------------------------------------------------
(* Game logic. *)

\* The guard of startGame without the check of the player count.
startGameAllowedAnyPlayerCount(seen) == seen.categories # 0

\* The guard of startGame, read from the closure of the last render.
startGameAllowed(seen) == seen.categories # 0 /\ seen.players >= 3

\* The guard of nextRound, read from the closure of the last render.
nextRoundAllowed(seen) == seen.categories # 0

\* revealOrder[0]
First(order) == IF Len(order) = 0 THEN Undefined ELSE order[1]

\* The updater of startGame.  The random draws are its parameters:
\* categoryIndex = secureRandom(selectedCategories.length), pair =
\* getRandomWordPair(randomCategory), the three results of secureShuffle and
\* startDraw = secureRandom(players.length).
startGame(prev, categoryIndex, pair, shuffledForRoles, shuffledReveal, shuffledOrder, startDraw) ==
    LET randomCategory == prev.selectedCategories[categoryIndex + 1]
        imposterIndices == Slice0(shuffledForRoles, prev.imposterCount)
        revealOrder == shuffledReveal
        playersWithRoles ==
            [i \in 1..Len(prev.players) |->
                [prev.players[i] EXCEPT !.isImposter = Includes(imposterIndices, i - 1),
                                        !.isDead = FALSE]]
        playerOrder == shuffledOrder
        startingPlayerIndex == IF prev.randomizeStartingPlayer THEN startDraw ELSE Null
    IN  [prev EXCEPT !.phase = REVEAL,
                     !.players = playersWithRoles,
                     !.realWord = pair.realWord,
                     !.imposterWord = pair.imposterWord,
                     !.imposterIndices = imposterIndices,
                     !.revealPass = 1,
                     !.allHints = <<>>,
                     !.currentPlayerIndex = 0,
                     !.currentVoterIndex = 0,
                     !.startingPlayerIndex = startingPlayerIndex,
                     !.revealedPlayers = AllFalse(Len(prev.players)),
                     !.votes = {},
                     !.playerOrder = playerOrder,
                     !.revealOrder = revealOrder,
                     !.lastFirstPlayerIndex = First(revealOrder),
                     !.hintWord = IF prev.imposterWordMode = "category_hint"
                                  THEN randomCategory.name ELSE NullStr,
                     !.isHandoverComplete = FALSE]

\* revealWord that flips the entry instead of setting it.
revealWordToggling(prev, playerIndex) ==
    [prev EXCEPT !.revealedPlayers =
        [prev.revealedPlayers EXCEPT ![playerIndex + 1] = ~prev.revealedPlayers[playerIndex + 1]]]

revealWord(prev, playerIndex) ==
    [prev EXCEPT !.revealedPlayers = [prev.revealedPlayers EXCEPT ![playerIndex + 1] = TRUE]]

\* nextPlayerReveal that ends the reveal turns one player early.
nextPlayerRevealEndingEarly(prev) ==
    LET nextIndex == prev.currentPlayerIndex + 1
    IN  IF nextIndex >= Len(prev.players) - 1
        THEN [prev EXCEPT !.phase = DISCUSSION, !.currentPlayerIndex = 0]
        ELSE [prev EXCEPT !.isHandoverComplete = FALSE, !.currentPlayerIndex = nextIndex]

nextPlayerReveal(prev) ==
    LET nextIndex == prev.currentPlayerIndex + 1
    IN  IF nextIndex >= Len(prev.players)
        THEN [prev EXCEPT !.phase = DISCUSSION, !.currentPlayerIndex = 0]
        ELSE [prev EXCEPT !.isHandoverComplete = FALSE, !.currentPlayerIndex = nextIndex]

\* startDiscussion that opens the vote whatever isVotingEnabled says.
startDiscussionAlwaysVoting(prev) ==
    [prev EXCEPT !.phase = VOTING,
                 !.currentVoterIndex = 0,
                 !.isHandoverComplete = FALSE]

startDiscussion(prev) ==
    IF ~prev.isVotingEnabled
    THEN [prev EXCEPT !.phase = RESULTS]
    ELSE [prev EXCEPT !.phase = VOTING,
                      !.currentVoterIndex = 0,
                      !.isHandoverComplete = FALSE]

\* votes: Record<voterId, targetId>, held as the set of its entries.
Voters(votes) == { e[1] : e \in votes }
Targets(votes) == { e[2] : e \in votes }
\* votes[id], undefined when id has no entry
VoteOf(votes, id) ==
    IF id \in Voters(votes) THEN (CHOOSE e \in votes : e[1] = id)[2] ELSE Undefined

castVote(prev, voterId, targetId) ==
    [prev EXCEPT !.votes = { e \in prev.votes : e[1] # voterId } \cup { <<voterId, targetId>> }]

\* nextVoter's return value hasMoreVoters
hasMoreVoters(prev) == prev.currentVoterIndex + 1 < Len(prev.players)

nextVoter(prev) ==
    LET nextIndex == prev.currentVoterIndex + 1
    IN  IF nextIndex >= Len(prev.players)
        THEN prev
        ELSE [prev EXCEPT !.currentVoterIndex = nextIndex, !.isHandoverComplete = FALSE]


\* The tally of submitVotes: voteCounts[targetId].
voteCounts(votes) ==
    [ t \in Targets(votes) |-> Cardinality({ e \in votes : e[2] = t }) ]

\* The orders in which Object.entries(voteCounts) can present the targets.
TallyOrders(votes) ==
    LET T == Targets(votes)
        n == Cardinality(T)
    IN  { o \in [1..n -> T] : \A i, j \in 1..n : i # j => o[i] # o[j] }

\* The forEach over Object.entries(voteCounts), entries taken in `order` from
\* position k on; acc holds the locals maxVotes, mostVotedId and isTie.
RECURSIVE FindMostVoted(_, _, _, _)
FindMostVoted(counts, order, k, acc) ==
    IF k > Len(order) THEN acc
    ELSE LET id == order[k]
             count == counts[id]
         IN  FindMostVoted(counts, order, k + 1,
                IF count > acc.maxVotes
                THEN [maxVotes |-> count, mostVotedId |-> id, isTie |-> FALSE]
                ELSE IF count = acc.maxVotes
                     THEN [acc EXCEPT !.isTie = TRUE]
                     ELSE acc)

mostVoted(votes, order) ==
    FindMostVoted(voteCounts(votes), order, 1,
                  [maxVotes |-> 0, mostVotedId |-> Null, isTie |-> FALSE])

\* prev.players[idx].id throws a TypeError when idx is not an index of players.
submitVotesThrows(prev) ==
    \E k \in 1..Len(prev.imposterIndices) :
        ~(prev.imposterIndices[k] \in 0..(Len(prev.players) - 1))

imposterIds(prev) ==
    [k \in 1..Len(prev.imposterIndices) |-> prev.players[prev.imposterIndices[k] + 1].id]

\* isImposterCaught without the `&& !isTie` conjunct.
isImposterCaughtIgnoringTie(prev, order) ==
    LET found == mostVoted(prev.votes, order)
    IN  /\ found.mostVotedId # Null
        /\ Includes(imposterIds(prev), found.mostVotedId)

isImposterCaught(prev, order) ==
    LET found == mostVoted(prev.votes, order)
    IN  /\ found.mostVotedId # Null
        /\ Includes(imposterIds(prev), found.mostVotedId)
        /\ ~found.isTie

\* wrongVoteCount with every player that has no entry in votes counted as a
\* wrong vote.
wrongVoteCountWithAbstainers(prev) ==
    Cardinality({ e \in prev.votes : ~Includes(imposterIds(prev), e[2]) })
        + Cardinality({ i \in 1..Len(prev.players) : prev.players[i].id \notin Voters(prev.votes) })

wrongVoteCount(prev) ==
    Cardinality({ e \in prev.votes : ~Includes(imposterIds(prev), e[2]) })

\* Math.floor(wrongVoteCount / prev.imposterIndices.length); a division by 0
\* gives Infinity or NaN, both held as NaN.
imposterShare(prev) ==
    IF Len(prev.imposterIndices) = 0 THEN NaN
    ELSE wrongVoteCount(prev) \div Len(prev.imposterIndices)

\* points with the town's reward given to every player when the imposter is
\* caught, whatever the player voted.
pointsWithoutVoteCheck(prev, isCaught, p) ==
    IF isCaught
    THEN 2
    ELSE IF p.isImposter THEN imposterShare(prev) ELSE 0

\* The local `points` of one player p.
points(prev, isCaught, p) ==
    IF isCaught
    THEN IF Includes(imposterIds(prev), VoteOf(prev.votes, p.id)) THEN 2 ELSE 0
    ELSE IF p.isImposter THEN imposterShare(prev) ELSE 0

\* p.score + points
addPoints(score, pts) == IF pts = NaN \/ score = NaN THEN NaN ELSE score + pts

\* The updater of submitVotes, the tally iterated in `order`.
submitVotes(prev, order) ==
    LET isCaught == isImposterCaught(prev, order)
        updatedPlayers ==
            [i \in 1..Len(prev.players) |->
                [prev.players[i] EXCEPT
                    !.score = addPoints(prev.players[i].score,
                                        points(prev, isCaught, prev.players[i]))]]
    IN  [prev EXCEPT !.players = updatedPlayers, !.phase = RESULTS]

\* nextRound without the increment of roundNumber: the updater of startGame.
nextRoundSameRoundNumber(prev, categoryIndex, pair, shuffledForRoles, shuffledReveal, shuffledOrder, startDraw) ==
    startGame(prev, categoryIndex, pair, shuffledForRoles, shuffledReveal, shuffledOrder, startDraw)

\* nextRound with the votes and the hints of the round before left in place.
nextRoundKeepingVotes(prev, categoryIndex, pair, shuffledForRoles, shuffledReveal, shuffledOrder, startDraw) ==
    LET round == startGame(prev, categoryIndex, pair, shuffledForRoles, shuffledReveal,
                           shuffledOrder, startDraw)
    IN  [round EXCEPT !.roundNumber = prev.roundNumber + 1,
                      !.votes = prev.votes,
                      !.allHints = prev.allHints]

\* nextRound with every score set back to 0: the round set up as by
\* startGame, the round counter advanced.
nextRoundZeroingScores(prev, categoryIndex, pair, shuffledForRoles, shuffledReveal, shuffledOrder, startDraw) ==
    LET round == startGame(prev, categoryIndex, pair, shuffledForRoles, shuffledReveal,
                           shuffledOrder, startDraw)
    IN  [round EXCEPT !.roundNumber = prev.roundNumber + 1,
                      !.players = [i \in 1..Len(round.players) |->
                                      [round.players[i] EXCEPT !.score = 0]]]

\* nextRound entering the second reveal pass.
nextRoundEnteringSecondPass(prev, categoryIndex, pair, shuffledForRoles, shuffledReveal, shuffledOrder, startDraw) ==
    LET randomCategory == prev.selectedCategories[categoryIndex + 1]
        imposterIndices == Slice0(shuffledForRoles, prev.imposterCount)
        revealOrder == shuffledReveal
        playersWithNewRoles ==
            [i \in 1..Len(prev.players) |->
                [prev.players[i] EXCEPT !.isImposter = Includes(imposterIndices, i - 1),
                                        !.isDead = FALSE]]
        playerOrder == shuffledOrder
        startingPlayerIndex == IF prev.randomizeStartingPlayer THEN startDraw ELSE Null
    IN  [prev EXCEPT !.phase = REVEAL,
                     !.roundNumber = prev.roundNumber + 1,
                     !.players = playersWithNewRoles,
                     !.realWord = pair.realWord,
                     !.imposterWord = pair.imposterWord,
                     !.imposterIndices = imposterIndices,
                     !.revealPass = 2,
                     !.allHints = <<>>,
                     !.currentPlayerIndex = 0,
                     !.currentVoterIndex = 0,
                     !.startingPlayerIndex = startingPlayerIndex,
                     !.revealedPlayers = AllFalse(Len(prev.players)),
                     !.votes = {},
                     !.playerOrder = playerOrder,
                     !.revealOrder = revealOrder,
                     !.lastFirstPlayerIndex = First(revealOrder),
                     !.hintWord = IF prev.imposterWordMode = "category_hint"
                                  THEN randomCategory.name ELSE NullStr,
                     !.isHandoverComplete = FALSE]

\* The updater of nextRound; the random draws are its parameters as in startGame.
nextRound(prev, categoryIndex, pair, shuffledForRoles, shuffledReveal, shuffledOrder, startDraw) ==
    LET randomCategory == prev.selectedCategories[categoryIndex + 1]
        imposterIndices == Slice0(shuffledForRoles, prev.imposterCount)
        revealOrder == shuffledReveal
        playersWithNewRoles ==
            [i \in 1..Len(prev.players) |->
                [prev.players[i] EXCEPT !.isImposter = Includes(imposterIndices, i - 1),
                                        !.isDead = FALSE]]
        playerOrder == shuffledOrder
        startingPlayerIndex == IF prev.randomizeStartingPlayer THEN startDraw ELSE Null
    IN  [prev EXCEPT !.phase = REVEAL,
                     !.roundNumber = prev.roundNumber + 1,
                     !.players = playersWithNewRoles,
                     !.realWord = pair.realWord,
                     !.imposterWord = pair.imposterWord,
                     !.imposterIndices = imposterIndices,
                     !.revealPass = 1,
                     !.allHints = <<>>,
                     !.currentPlayerIndex = 0,
                     !.currentVoterIndex = 0,
                     !.startingPlayerIndex = startingPlayerIndex,
                     !.revealedPlayers = AllFalse(Len(prev.players)),
                     !.votes = {},
                     !.playerOrder = playerOrder,
                     !.revealOrder = revealOrder,
                     !.lastFirstPlayerIndex = First(revealOrder),
                     !.hintWord = IF prev.imposterWordMode = "category_hint"
                                  THEN randomCategory.name ELSE NullStr,
                     !.isHandoverComplete = FALSE]

\* endGame with the scores left on the board.
endGameKeepingScores(prev) ==
    [initialState EXCEPT
        !.customCategories = prev.customCategories,
        !.isLoadingCategories = prev.isLoadingCategories,
        !.phase = SETUP,
        !.players = [i \in 1..Len(prev.players) |->
                        [prev.players[i] EXCEPT !.isImposter = FALSE]],
        !.selectedCategories = prev.selectedCategories,
        !.randomizeStartingPlayer = prev.randomizeStartingPlayer,
        !.imposterCount = prev.imposterCount,
        !.imposterWordMode = prev.imposterWordMode,
        !.isVotingEnabled = prev.isVotingEnabled,
        !.isHandoverComplete = FALSE]

endGame(prev) ==
    [initialState EXCEPT
        !.customCategories = prev.customCategories,
        !.isLoadingCategories = prev.isLoadingCategories,
        !.phase = SETUP,
        !.players = [i \in 1..Len(prev.players) |->
                        [prev.players[i] EXCEPT !.score = 0, !.isImposter = FALSE]],
        !.selectedCategories = prev.selectedCategories,
        !.randomizeStartingPlayer = prev.randomizeStartingPlayer,
        !.imposterCount = prev.imposterCount,
        !.imposterWordMode = prev.imposterWordMode,
        !.isVotingEnabled = prev.isVotingEnabled,
        !.isHandoverComplete = FALSE]

\* startNewGame with the roster left in place.
startNewGameKeepingRoster(prev) ==
    [initialState EXCEPT
        !.customCategories = prev.customCategories,
        !.isLoadingCategories = prev.isLoadingCategories,
        !.isVotingEnabled = prev.isVotingEnabled,
        !.players = prev.players,
        !.phase = PLAYER_SETUP,
        !.isHandoverComplete = FALSE]

startNewGame(prev) ==
    [initialState EXCEPT
        !.customCategories = prev.customCategories,
        !.isLoadingCategories = prev.isLoadingCategories,
        !.isVotingEnabled = prev.isVotingEnabled,
        !.phase = PLAYER_SETUP,
        !.isHandoverComplete = FALSE]

\* getPlayerWord that gives an imposter the real word in hidden mode.
getPlayerWordLeakingRealWord(s, playerIndex) ==
    IF Includes(s.imposterIndices, playerIndex)
    THEN IF s.imposterWordMode \in {"no_hint", "category_hint", "user_hint"}
         THEN ""
         ELSE s.realWord
    ELSE s.realWord

\* getPlayerWord that shows the imposter word in every mode.
getPlayerWordIgnoringMode(s, playerIndex) ==
    IF Includes(s.imposterIndices, playerIndex) THEN s.imposterWord ELSE s.realWord

\* getCurrentVoter(): the player at currentVoterIndex, null (a player record
\* whose id is Null) when the index is beyond the roster.
getCurrentVoter(s) ==
    IF s.currentVoterIndex >= Len(s.players)
    THEN [id |-> Null, name |-> "", score |-> 0, isImposter |-> FALSE, isDead |-> FALSE]
    ELSE s.players[s.currentVoterIndex + 1]

\* RevealView's actualPlayerIndex: the player whose reveal turn it is
\* (src/app/game.tsx).
actualPlayerIndex(s) ==
    IF Len(s.revealOrder) > 0
    THEN IF s.currentPlayerIndex + 1 \in 1..Len(s.revealOrder)
         THEN s.revealOrder[s.currentPlayerIndex + 1]
         ELSE Undefined
    ELSE s.currentPlayerIndex

\* Helpers reading the rendered state.
isPlayerImposter(s, playerIndex) == Includes(s.imposterIndices, playerIndex)

getPlayerWord(s, playerIndex) ==
    IF Includes(s.imposterIndices, playerIndex)
    THEN IF s.imposterWordMode \in {"no_hint", "category_hint", "user_hint"}
         THEN ""
         ELSE s.imposterWord
    ELSE s.realWord


-----------------------------------------------------------------------------
(* The actions of GameProvider.  Each one commits the result of its updater *)
(* and React re-renders, so the closures see the committed state before the *)
(* next action is issued.                                                   *)

Invoked(op, arg) == [op |-> op, arg |-> arg]

Commit(next, op, arg) ==
    /\ ~threw
    /\ state' = next
    /\ rendered' = Snapshot(next)
    /\ last' = Invoked(op, arg)
    /\ logged' = ""
    /\ stored' = stored
    /\ unsaved' = unsaved

\* An updater that throws: nothing is committed and the app is down.
Throw(op, arg) ==
    /\ ~threw
    /\ threw' = TRUE
    /\ last' = Invoked(op, arg)
    /\ logged' = ""
    /\ UNCHANGED <<state, rendered, nextId, caught, stored, unsaved>>

AddPlayer(name) ==
    /\ Len(state.players) < MaxPlayers
    /\ nextId <= MaxIds
    /\ Commit(addPlayer(state, nextId, name), "addPlayer", nextId)
    /\ nextId' = nextId + 1
    /\ UNCHANGED <<threw, caught>>

RemovePlayer(id) ==
    /\ Commit(removePlayer(state, id), "removePlayer", id)
    /\ UNCHANGED <<nextId, threw, caught>>

UpdatePlayerName(id, name) ==
    /\ Commit(updatePlayerName(state, id, name), "updatePlayerName", id)
    /\ UNCHANGED <<nextId, threw, caught>>

ToggleCategory(category) ==
    /\ Commit(toggleCategory(state, category), "toggleCategory", 0)
    /\ UNCHANGED <<nextId, threw, caught>>

SetRandomizeStartingPlayer(value) ==
    /\ Commit(setRandomizeStartingPlayer(state, value), "setRandomizeStartingPlayer", 0)
    /\ UNCHANGED <<nextId, threw, caught>>

SetImposterCount(count) ==
    /\ Commit(setImposterCount(state, count), "setImposterCount", count)
    /\ UNCHANGED <<nextId, threw, caught>>

SetImposterWordMode(mode) ==
    /\ Commit(setImposterWordMode(state, mode), "setImposterWordMode", 0)
    /\ UNCHANGED <<nextId, threw, caught>>

SetVotingEnabled(enabled) ==
    /\ Commit(setVotingEnabled(state, enabled), "setVotingEnabled", 0)
    /\ UNCHANGED <<nextId, threw, caught>>

\* The texts of the hints players give, and the number that stands for each.
HintTexts == <<"hint", "warm", "round">>
HintNumber(hint) == CHOOSE n \in 1..Len(HintTexts) : HintTexts[n] = hint
Hints == {"warm", "round"}

AddHint(hint) ==
    /\ Commit(addHint(state, hint), "addHint", HintNumber(hint))
    /\ UNCHANGED <<nextId, threw, caught>>

SetHintWord(word) ==
    /\ Commit(setHintWord(state, word), "setHintWord", 0)
    /\ UNCHANGED <<nextId, threw, caught>>

SetHandoverComplete(complete) ==
    /\ Commit(setHandoverComplete(state, complete), "setHandoverComplete", 0)
    /\ UNCHANGED <<nextId, threw, caught>>

ResetPlayers ==
    /\ Commit(resetPlayers(state), "resetPlayers", 0)
    /\ UNCHANGED <<nextId, threw, caught>>

CompletePlayerSetup ==
    /\ Commit(completePlayerSetup(state), "completePlayerSetup", 0)
    /\ UNCHANGED <<nextId, threw, caught>>

\* The draw of startingPlayerIndex: secureRandom is called only when
\* randomizeStartingPlayer is set.
StartDraws(prev) ==
    IF prev.randomizeStartingPlayer THEN secureRandom(Len(prev.players)) ELSE {Null}

StartGame ==
    IF ~startGameAllowed(rendered)
    THEN /\ Commit(state, "startGame", 0)
         /\ UNCHANGED <<nextId, threw, caught>>
    ELSE IF Len(state.selectedCategories) = 0
    THEN Throw("startGame", 1)
    ELSE \E categoryIndex \in secureRandom(Len(state.selectedCategories)) :
         \E pair \in getRandomWordPair(state.selectedCategories[categoryIndex + 1]) :
         \E roles \in secureShuffle(Indices(Len(state.players))) :
         \E reveal \in secureShuffle(Indices(Len(state.players))) :
         \E order \in secureShuffle(Indices(Len(state.players))) :
         \E startDraw \in StartDraws(state) :
            /\ Commit(startGame(state, categoryIndex, pair, roles, reveal, order, startDraw),
                      "startGame", 1)
            /\ UNCHANGED <<nextId, threw, caught>>

RevealWord(playerIndex) ==
    /\ playerIndex \in 0..(Len(state.revealedPlayers) - 1)
    /\ Commit(revealWord(state, playerIndex), "revealWord", playerIndex)
    /\ UNCHANGED <<nextId, threw, caught>>

NextPlayerReveal ==
    /\ Commit(nextPlayerReveal(state), "nextPlayerReveal", 0)
    /\ UNCHANGED <<nextId, threw, caught>>

StartDiscussion ==
    /\ Commit(startDiscussion(state), "startDiscussion", 0)
    /\ UNCHANGED <<nextId, threw, caught>>

CastVote(voterId, targetId) ==
    /\ Commit(castVote(state, voterId, targetId), "castVote", voterId)
    /\ UNCHANGED <<nextId, threw, caught>>

\* The boolean nextVoter returns, as the argument of the action in `last`.
ReturnedFalse == 0
ReturnedTrue == 1

\* nextVoter invoked with no update pending: React runs the updater before
\* setState returns, and the local hasMoreVoters is the value it computed.
NextVoter ==
    /\ Commit(nextVoter(state), "nextVoter",
              IF hasMoreVoters(state) THEN ReturnedTrue ELSE ReturnedFalse)
    /\ UNCHANGED <<nextId, threw, caught>>

\* No score is pushed beyond MaxScore.
WithinMaxScore(s) == \A i \in 1..Len(s.players) : s.players[i].score <= MaxScore

SubmitVotes ==
    IF submitVotesThrows(state)
    THEN Throw("submitVotes", 0)
    ELSE \E order \in TallyOrders(state.votes) :
            /\ WithinMaxScore(submitVotes(state, order))
            /\ Commit(submitVotes(state, order), "submitVotes", 0)
            /\ caught' = isImposterCaught(state, order)
            /\ UNCHANGED <<nextId, threw>>

NextRound ==
    IF ~nextRoundAllowed(rendered)
    THEN /\ Commit(state, "nextRound", 0)
         /\ UNCHANGED <<nextId, threw, caught>>
    ELSE IF Len(state.selectedCategories) = 0
    THEN Throw("nextRound", 1)
    ELSE \E categoryIndex \in secureRandom(Len(state.selectedCategories)) :
         \E pair \in getRandomWordPair(state.selectedCategories[categoryIndex + 1]) :
         \E roles \in secureShuffle(Indices(Len(state.players))) :
         \E reveal \in secureShuffle(Indices(Len(state.players))) :
         \E order \in secureShuffle(Indices(Len(state.players))) :
         \E startDraw \in StartDraws(state) :
            /\ Commit(nextRound(state, categoryIndex, pair, roles, reveal, order, startDraw),
                      "nextRound", 1)
            /\ UNCHANGED <<nextId, threw, caught>>

EndGame ==
    /\ Commit(endGame(state), "endGame", 0)
    /\ UNCHANGED <<nextId, threw, caught>>

StartNewGame ==
    /\ Commit(startNewGame(state), "startNewGame", 0)
    /\ UNCHANGED <<nextId, threw, caught>>

\* VotingView.handleVote (src/app/game.tsx): castVote for the current voter,
\* then submitVotes when the voter is the last one and nextVoter otherwise.
\* The update of castVote is pending when nextVoter is called, so React
\* queues the updater of nextVoter and runs it at the next render: the local
\* hasMoreVoters still holds false when nextVoter returns.  The argument in
\* `last` is the value nextVoter returned, Null when it was not called.
HandleVote(targetId) ==
    LET currentVoter == getCurrentVoter(state)
        isLastVoter == state.currentVoterIndex = Len(state.players) - 1
        voted == castVote(state, currentVoter.id, targetId)
    IN  /\ currentVoter.id # Null
        /\ IF isLastVoter
           THEN IF submitVotesThrows(voted)
                THEN Throw("handleVote", Null)
                ELSE \E order \in TallyOrders(voted.votes) :
                        /\ WithinMaxScore(submitVotes(voted, order))
                        /\ Commit(submitVotes(voted, order), "handleVote", Null)
                        /\ caught' = isImposterCaught(voted, order)
                        /\ UNCHANGED <<nextId, threw>>
           ELSE /\ Commit(nextVoter(voted), "handleVote", ReturnedFalse)
                /\ UNCHANGED <<nextId, threw, caught>>

\* getPlayerWord reads the rendered state and sets nothing.
GetPlayerWord(playerIndex) ==
    /\ ~threw
    /\ last' = Invoked("getPlayerWord", playerIndex)
    /\ logged' = ""
    /\ UNCHANGED <<state, rendered, nextId, threw, caught, stored, unsaved>>

\* A setState issued by an event handler that goes on to invoke another
\* action: React batches the update, no render happens in between, and the
\* closures the handler holds are still those of the last render.
CommitBatched(next, op, arg) ==
    /\ ~threw
    /\ state' = next
    /\ rendered' = rendered
    /\ last' = Invoked(op, arg)
    /\ logged' = ""
    /\ stored' = stored
    /\ unsaved' = unsaved

ToggleCategoryBatched(category) ==
    /\ CommitBatched(toggleCategory(state, category), "toggleCategory", 0)
    /\ UNCHANGED <<nextId, threw, caught>>

RemovePlayerBatched(id) ==
    /\ CommitBatched(removePlayer(state, id), "removePlayer", id)
    /\ UNCHANGED <<nextId, threw, caught>>

\* The lines console.error writes.
LoadFailed == "Failed to load categories:"
SaveFailed == "Failed to save categories:"

\* The effect that runs once after mount; it has not completed as long as
\* isLoadingCategories is true.  getItem gives the stored item or rejects.
LoadCategories(item) ==
    /\ ~threw
    /\ state.isLoadingCategories
    /\ item \in {stored, Unreadable}
    /\ state' = loadCategories(state, item)
    /\ rendered' = Snapshot(state')
    /\ last' = Invoked("loadCategories", 0)
    /\ logged' = IF loadCategoriesFails(item) THEN LoadFailed ELSE ""
    /\ UNCHANGED <<nextId, threw, caught, stored, unsaved>>

\* A category mutation: the updater calls saveCategories(updated), whose
\* setItem is accepted or rejected by the store.
CommitSaving(next, op, arg, rejects) ==
    /\ ~threw
    /\ state' = next
    /\ rendered' = Snapshot(next)
    /\ last' = Invoked(op, arg)
    /\ stored' = saveCategories(stored, next.customCategories, rejects)
    /\ logged' = IF rejects THEN SaveFailed ELSE ""
    /\ UNCHANGED <<nextId, threw, caught, unsaved>>

\* `custom_${Date.now()}`: the n-th value of the clock.
CustomId(n) == <<"custom_1", "custom_2", "custom_3", "custom_4">>[n]

\* The category addCategory("Drinks", ["tea", "chai"]) builds at clock value n.
NewCategory(n) == [id |-> CustomId(n), name |-> "Drinks", words |-> <<"tea", "chai">>]

\* The clock does not go back: no category in memory or in the store has an
\* id later than the n-th value.
ClockAt(n) ==
    \A c \in Range(state.customCategories) \cup Range(stored.categories) :
        \E m \in 1..n : c.id = CustomId(m)

AddCategory(n, rejects) ==
    /\ Len(state.customCategories) < MaxCustom
    /\ ClockAt(n)
    /\ CommitSaving(addCategory(state, NewCategory(n)), "addCategory", n, rejects)

UpdateCategory(n, rejects) ==
    CommitSaving(updateCategory(state, CustomId(n), [name |-> "Renamed"]),
                 "updateCategory", n, rejects)

RemoveCategory(n, rejects) ==
    CommitSaving(removeCategory(state, CustomId(n)), "removeCategory", n, rejects)

\* A category mutation whose saveCategories(updated) is not awaited: the
\* updater returns with the setItem outstanding.
CommitUnsaved(next, op, arg) ==
    /\ ~threw
    /\ Len(unsaved) < MaxUnsaved
    /\ state' = next
    /\ rendered' = Snapshot(next)
    /\ last' = Invoked(op, arg)
    /\ unsaved' = Append(unsaved, next.customCategories)
    /\ logged' = ""
    /\ UNCHANGED <<nextId, threw, caught, stored>>

AddCategoryUnsaved(n) ==
    /\ Len(state.customCategories) < MaxCustom
    /\ ClockAt(n)
    /\ \A k \in 1..Len(unsaved) : \A c \in Range(unsaved[k]) : \E m \in 1..n : c.id = CustomId(m)
    /\ CommitUnsaved(addCategory(state, NewCategory(n)), "addCategory", n)

UpdateCategoryUnsaved(n) ==
    CommitUnsaved(updateCategory(state, CustomId(n), [name |-> "Renamed"]),
                  "updateCategory", n)

RemoveCategoryUnsaved(n) ==
    CommitUnsaved(removeCategory(state, CustomId(n)), "removeCategory", n)

\* AsyncStorage serves the oldest outstanding setItem.  The requests are
\* served in the order they were issued, and the getItem of the load was
\* issued at mount, ahead of every setItem.
SetItemServed ==
    /\ ~threw
    /\ ~state.isLoadingCategories
    /\ unsaved # <<>>
    /\ stored' = saveCategories(stored, Head(unsaved), FALSE)
    /\ unsaved' = Tail(unsaved)
    /\ last' = Invoked("setItem", 0)
    /\ logged' = ""
    /\ UNCHANGED <<state, rendered, nextId, threw, caught>>

\* The ids of the current roster.
RosterIds == { state.players[i].id : i \in 1..Len(state.players) }

-----------------------------------------------------------------------------
(* The engine from its initial state: roster, configuration and phase.      *)

NoAction == Invoked("none", 0)

Init ==
    /\ state = initialState
    /\ nextId = 1
    /\ rendered = Snapshot(initialState)
    /\ threw = FALSE
    /\ caught = FALSE
    /\ last = NoAction
    /\ stored = Absent
    /\ logged = ""
    /\ unsaved = <<>>

\* The imposter counts a caller asks for, below and above every legal value.
RequestedCounts == (-1)..(MaxPlayers \div 3 + 1)

\* Roster, configuration and the turn actions from the initial state, with
\* no round set up: rosters of up to MaxPlayers players.
Next ==
    \/ AddPlayer("")
    \/ \E id \in RosterIds : RemovePlayer(id)
    \/ \E count \in RequestedCounts : SetImposterCount(count)
    \/ CompletePlayerSetup
    \/ NextPlayerReveal
    \/ StartDiscussion
    \/ SubmitVotes
    \/ EndGame
    \/ StartNewGame

Spec == Init /\ [][Next]_vars

\* The roster and the imposter count alone.
NextRoster ==
    \/ AddPlayer("")
    \/ \E id \in RosterIds : RemovePlayer(id)
    \/ \E count \in RequestedCounts : SetImposterCount(count)
    \/ CompletePlayerSetup
    \/ StartNewGame

SpecRoster == Init /\ [][NextRoster]_vars

-----------------------------------------------------------------------------
(* States the engine reaches from initialState, computed by running its     *)
(* own updaters; the specifications below start from them.                  *)

\* addPlayer("") called n times: the ids are 1..n.
RECURSIVE AfterAddPlayers(_)
AfterAddPlayers(n) ==
    IF n = 0 THEN initialState ELSE addPlayer(AfterAddPlayers(n - 1), n, "")

\* removePlayer on the first player, until n players are left.
RECURSIVE AfterRemovals(_, _)
AfterRemovals(s, n) ==
    IF Len(s.players) <= n THEN s
    ELSE AfterRemovals(removePlayer(s, s.players[1].id), n)

\* toggleCategory on each category of the sequence cats.
RECURSIVE AfterToggles(_, _)
AfterToggles(s, cats) ==
    IF cats = <<>> THEN s ELSE AfterToggles(toggleCategory(s, Head(cats)), Tail(cats))

Food == CHOOSE c \in Categories : c.id = "food"
Sport == CHOOSE c \in Categories : c.id = "sport"

\* A lobby: `added` players registered, setImposterCount(count), then players
\* removed until `kept` are left, the categories toggled on and the
\* configuration set.
Lobby(added, count, kept, cats, mode, randomize) ==
    setRandomizeStartingPlayer(
        setImposterWordMode(
            AfterToggles(
                completePlayerSetup(
                    AfterRemovals(setImposterCount(AfterAddPlayers(added), count), kept)),
                cats),
            mode),
        randomize)

InitFrom(s, idsUsed) ==
    /\ state = s
    /\ nextId = idsUsed + 1
    /\ rendered = Snapshot(s)
    /\ threw = FALSE
    /\ caught = FALSE
    /\ last = NoAction
    /\ stored = Absent
    /\ logged = ""
    /\ unsaved = <<>>

-----------------------------------------------------------------------------
(* Round setup: one startGame or nextRound from a lobby, with every outcome *)
(* of the random draws.                                                     *)

InitSetup ==
    \E added \in 1..MaxPlayers, count \in 1..2, kept \in 0..RoundPlayers :
    \E cats \in {<<>>, <<Food>>, <<Sport, Food>>} :
    \E mode \in {"hidden", "category_hint"}, randomize \in BOOLEAN :
        /\ kept <= added
        /\ InitFrom(Lobby(added, count, kept, cats, mode, randomize), added)

NextSetup ==
    \/ last = NoAction /\ StartGame
    \/ last = NoAction /\ NextRound

SpecSetup == InitSetup /\ [][NextSetup]_vars

-----------------------------------------------------------------------------
(* Rounds in progress, computed by the updaters from a lobby.               *)

\* The shuffle in which every draw is j = i: the array comes back unchanged.
Unshuffled(n) == FisherYates(Indices(n), n - 1, [i \in 1..(n - 1) |-> i])

\* startGame from a lobby of `kept` players with the category Food, the roles
\* as shuffled in `roles`.
RoundStarted(added, count, kept, roles) ==
    startGame(Lobby(added, count, kept, <<Food>>, "hidden", FALSE),
              0, [realWord |-> "pizza", imposterWord |-> "pasta"],
              roles, Unshuffled(kept), Unshuffled(kept), Null)

\* nextPlayerReveal called n times.
RECURSIVE AfterReveals(_, _)
AfterReveals(s, n) == IF n = 0 THEN s ELSE AfterReveals(nextPlayerReveal(s), n - 1)

\* The round once every player has had a reveal turn and the discussion is
\* over: phase VOTING.
RoundAtVoting(added, count, kept, roles) ==
    startDiscussion(AfterReveals(RoundStarted(added, count, kept, roles), kept))

-----------------------------------------------------------------------------
(* Voting and scoring: votes are cast in any order and number, the imposter *)
(* count may be set again, and submitVotes ends the round.                  *)

InitScoring ==
    \E added \in {RoundPlayers, MaxPlayers}, count \in 1..2 :
    \E roles \in secureShuffle(Indices(RoundPlayers)) :
        InitFrom(RoundAtVoting(added, count, RoundPlayers, roles), added)

NextScoring ==
    \/ \E voterId \in RosterIds, targetId \in RosterIds :
          state.phase = VOTING /\ CastVote(voterId, targetId)
    \/ \E count \in 1..2 : state.phase = VOTING /\ SetImposterCount(count)
    \/ state.phase = VOTING /\ SubmitVotes

SpecScoring == InitScoring /\ [][NextScoring]_vars

-----------------------------------------------------------------------------
(* Roster and configuration changes while a round is in progress.           *)

InitMidRound ==
    \E added \in {RoundPlayers, MaxPlayers}, count \in 1..2 :
    \E roles \in secureShuffle(Indices(RoundPlayers)) :
        InitFrom(RoundStarted(added, count, RoundPlayers, roles), added)

NextMidRound ==
    \/ AddPlayer("")
    \/ \E id \in RosterIds : RemovePlayer(id)
    \/ \E count \in 1..2 : SetImposterCount(count)
    \/ NextPlayerReveal
    \/ StartDiscussion
    \/ SubmitVotes

SpecMidRound == InitMidRound /\ [][NextMidRound]_vars

-----------------------------------------------------------------------------
(* One action, whichever it is, from a match in progress: the states are    *)
(* computed by the updaters, with scores, votes, hints and turn indices     *)
(* left by the rounds played.                                               *)

\* castVote called once per ballot <<voter index, target index>>.
RECURSIVE AfterVotes(_, _)
AfterVotes(s, ballots) ==
    IF ballots = <<>> THEN s
    ELSE AfterVotes(castVote(s, s.players[Head(ballots)[1] + 1].id,
                                s.players[Head(ballots)[2] + 1].id),
                    Tail(ballots))

\* The ballots of a round: nobody votes; one vote; everybody votes for
\* player 0.
Ballots ==
    { <<>>,
      << <<0, 1>> >>,
      << <<0, 0>>, <<1, 0>>, <<2, 0>> >> }

Stages == {"lobby", "setup", "reveal", "revealing", "discussion", "voting", "results"}

\* A match at a stage: a first round played to RESULTS with the ballots cast,
\* the imposter word mode set, then a second round taken to the stage (the
\* stage "setup" ends the game instead, "lobby" is the lobby before any round).
PlayedTo(added, count, roles, ballots, order, mode, stage) ==
    LET scored == setImposterWordMode(
                      submitVotes(AfterVotes(RoundAtVoting(added, count, RoundPlayers, roles),
                                             ballots),
                                  order),
                      mode)
        second == nextRound(scored, 0, [realWord |-> "pasta", imposterWord |-> "pizza"],
                            roles, Unshuffled(RoundPlayers), Unshuffled(RoundPlayers), Null)
        revealing == nextPlayerReveal(revealWord(addHint(second, "hint"), 0))
        discussion == AfterReveals(revealing, RoundPlayers - 1)
        voting == AfterVotes(nextVoter(startDiscussion(discussion)), ballots)
    IN  CASE stage = "lobby" -> setImposterWordMode(
                                    Lobby(added, count, RoundPlayers, <<Food>>, "hidden", FALSE),
                                    mode)
          [] stage = "setup" -> endGame(scored)
          [] stage = "reveal" -> second
          [] stage = "revealing" -> revealing
          [] stage = "discussion" -> discussion
          [] stage = "voting" -> voting
          [] stage = "results" -> scored

\* The match at a stage, setVotingEnabled(voting) called, with 0, 1 or 2
\* categories selected: its one category toggled off again, left alone, or a
\* second one toggled on.
Played(added, count, roles, ballots, order, mode, stage, selected, voting) ==
    LET s == setVotingEnabled(PlayedTo(added, count, roles, ballots, order, mode, stage),
                              voting)
    IN  CASE selected = 0 -> toggleCategory(s, Food)
          [] selected = 1 -> s
          [] selected = 2 -> toggleCategory(s, Sport)

InitPlayed ==
    \E added \in {MaxPlayers}, count \in 1..2 :
    \E roles \in {Unshuffled(RoundPlayers)} :
    \E ballots \in Ballots, mode \in {"hidden", "category_hint"}, stage \in Stages :
    \E order \in TallyOrders(AfterVotes(RoundAtVoting(added, count, RoundPlayers, roles),
                                         ballots).votes) :
    \E selected \in 0..2, voting \in BOOLEAN :
        /\ selected = 1 => mode = "hidden" /\ voting
        /\ selected = 2 => mode = "category_hint" /\ voting
        /\ InitFrom(Played(added, count, roles, ballots, order, mode, stage, selected, voting),
                    added)

Names == {"", "Ann"}

NextOneAction ==
    \/ \E name \in Names : last = NoAction /\ AddPlayer(name)
    \/ \E id \in RosterIds : last = NoAction /\ RemovePlayer(id)
    \/ \E id \in RosterIds, name \in Names : last = NoAction /\ UpdatePlayerName(id, name)
    \/ \E category \in Categories : last = NoAction /\ ToggleCategory(category)
    \/ \E value \in BOOLEAN : last = NoAction /\ SetRandomizeStartingPlayer(value)
    \/ \E count \in RequestedCounts : last = NoAction /\ SetImposterCount(count)
    \/ \E mode \in ImposterWordMode : last = NoAction /\ SetImposterWordMode(mode)
    \/ \E enabled \in BOOLEAN : last = NoAction /\ SetVotingEnabled(enabled)
    \/ last = NoAction /\ SetHintWord("word")
    \/ \E hint \in Hints : last = NoAction /\ AddHint(hint)
    \/ last = NoAction /\ ResetPlayers
    \/ last = NoAction /\ CompletePlayerSetup
    \/ \E complete \in BOOLEAN : last = NoAction /\ SetHandoverComplete(complete)
    \/ last = NoAction /\ StartGame
    \/ \E playerIndex \in 0..(MaxPlayers - 1) : last = NoAction /\ RevealWord(playerIndex)
    \/ last = NoAction /\ NextPlayerReveal
    \/ last = NoAction /\ StartDiscussion
    \/ \E voterId \in RosterIds, targetId \in RosterIds :
          last = NoAction /\ CastVote(voterId, targetId)
    \/ last = NoAction /\ NextVoter
    \/ last = NoAction /\ SubmitVotes
    \/ last = NoAction /\ NextRound
    \/ last = NoAction /\ EndGame
    \/ last = NoAction /\ StartNewGame

SpecOneAction == InitPlayed /\ [][NextOneAction]_vars

-----------------------------------------------------------------------------
(* The word shown to a player: rounds started with every assignment of the  *)
(* roles, in every imposter word mode.                                      *)

InitWords ==
    \E count \in 1..2, mode \in ImposterWordMode :
    \E roles \in secureShuffle(Indices(RoundPlayers)) :
        InitFrom(setImposterWordMode(RoundStarted(MaxPlayers, count, RoundPlayers, roles), mode),
                 MaxPlayers)

NextWords ==
    \/ \E playerIndex \in 0..(MaxPlayers - 1) : GetPlayerWord(playerIndex)
    \/ \E mode \in ImposterWordMode : SetImposterWordMode(mode)

SpecWords == InitWords /\ [][NextWords]_vars

-----------------------------------------------------------------------------
(* Two actions invoked by one event handler: a category toggled or a player *)
(* removed, and startGame or nextRound invoked before the next render.      *)

InitBatched ==
    \/ \E kept \in 1..RoundPlayers, cats \in {<<>>, <<Food>>, <<Sport, Food>>} :
          InitFrom(Lobby(RoundPlayers, 1, kept, cats, "hidden", FALSE), RoundPlayers)
    \/ \E selected \in 0..2 :
          InitFrom(Played(MaxPlayers, 1, Unshuffled(RoundPlayers), <<>>, <<>>, "hidden",
                          "results", selected, TRUE),
                   MaxPlayers)

\* No round has been set up since the initial state of the specification.
NoRoundSetUpYet == last.op \notin {"startGame", "nextRound"}

NextBatched ==
    \/ \E category \in Categories : last = NoAction /\ ToggleCategoryBatched(category)
    \/ \E id \in RosterIds : last = NoAction /\ RemovePlayerBatched(id)
    \/ NoRoundSetUpYet /\ StartGame
    \/ NoRoundSetUpYet /\ NextRound

SpecBatched == InitBatched /\ [][NextBatched]_vars

-----------------------------------------------------------------------------
(* The reveal turns of a round: from a round just set up, with every reveal *)
(* order, words are revealed, hints are added and the phone is passed on.   *)

\* startGame from a lobby of RoundPlayers players, the reveal order as
\* shuffled in `reveal`.
RoundStartedWith(reveal) ==
    startGame(Lobby(RoundPlayers, 1, RoundPlayers, <<Food>>, "hidden", FALSE),
              0, [realWord |-> "pizza", imposterWord |-> "pasta"],
              Unshuffled(RoundPlayers), reveal, Unshuffled(RoundPlayers), Null)

InitReveal ==
    \E reveal \in secureShuffle(Indices(RoundPlayers)) :
        InitFrom(RoundStartedWith(reveal), RoundPlayers)

\* Each player confirms one hint at most in a round.
NextReveal ==
    \/ \E playerIndex \in 0..(MaxPlayers - 1) : RevealWord(playerIndex)
    \/ \E hint \in Hints : Len(state.allHints) < Len(state.players) /\ AddHint(hint)
    \/ NextPlayerReveal

SpecReveal == InitReveal /\ [][NextReveal]_vars

-----------------------------------------------------------------------------
(* The voting turns of a round: from the discussion, the voters vote one    *)
(* after the other through the voting screen, or nextVoter is invoked on    *)
(* its own.                                                                 *)

InitVoting ==
    \E added \in {RoundPlayers, MaxPlayers}, roles \in secureShuffle(Indices(RoundPlayers)) :
        InitFrom(AfterReveals(RoundStarted(added, 1, RoundPlayers, roles), RoundPlayers), added)

NextVoting ==
    \/ state.phase = DISCUSSION /\ StartDiscussion
    \/ \E targetId \in RosterIds : state.phase = VOTING /\ HandleVote(targetId)
    \/ state.phase = VOTING /\ NextVoter

SpecVoting == InitVoting /\ [][NextVoting]_vars

-----------------------------------------------------------------------------
(* Custom categories and their store: the load at mount and the category    *)
(* mutations, each of whose reads and writes the store accepts or rejects,  *)
(* before a match and during a round.                                       *)

InitCategories ==
    \E s \in { initialState,
                RoundStarted(RoundPlayers, 1, RoundPlayers, Unshuffled(RoundPlayers)) } :
    \E item \in { Absent, Corrupt, Blob(<<>>), Blob(<<NewCategory(1)>>) } :
        /\ state = s
        /\ nextId = RoundPlayers + 1
        /\ rendered = Snapshot(s)
        /\ threw = FALSE
        /\ caught = FALSE
        /\ last = NoAction
        /\ stored = item
        /\ logged = ""
        /\ unsaved = <<>>

NextCategories ==
    \/ \E item \in {stored, Unreadable} : LoadCategories(item)
    \/ \E n \in 1..MaxCustom, rejects \in BOOLEAN : AddCategory(n, rejects)
    \/ \E n \in 1..MaxCustom, rejects \in BOOLEAN : UpdateCategory(n, rejects)
    \/ \E n \in 1..MaxCustom, rejects \in BOOLEAN : RemoveCategory(n, rejects)
    \/ Len(state.customCategories) >= 1 /\ ToggleCategory(state.customCategories[1])

SpecCategories == InitCategories /\ [][NextCategories]_vars

-----------------------------------------------------------------------------
(* Category selection in the lobby: the categories of the word source and   *)
(* the custom ones are toggled, custom categories are added, renamed and    *)
(* removed in between.                                                      *)

\* The categories the lobby lists: [...PREDEFINED_CATEGORIES, ...customCategories]
\* (src/app/(tabs)/explore.tsx).
allCategories(s) == Categories \cup Range(s.customCategories)

InitToggle ==
    \E cats \in {<<>>, <<Food>>} :
        InitFrom(Lobby(RoundPlayers, 1, RoundPlayers, cats, "hidden", FALSE), RoundPlayers)

NextToggle ==
    \/ \E category \in allCategories(state) : ToggleCategory(category)
    \/ \E n \in 1..MaxCustom : AddCategory(n, FALSE)
    \/ \E n \in 1..MaxCustom : UpdateCategory(n, FALSE)
    \/ \E n \in 1..MaxCustom : RemoveCategory(n, FALSE)

SpecToggle == InitToggle /\ [][NextToggle]_vars

-----------------------------------------------------------------------------
(* The load at mount and the category mutations with their saves left       *)
(* outstanding; the store accepts every read and every write.               *)

InitStore ==
    \E item \in { Absent, Blob(<<>>), Blob(<<NewCategory(1)>>) } :
        /\ state = initialState
        /\ nextId = 1
        /\ rendered = Snapshot(initialState)
        /\ threw = FALSE
        /\ caught = FALSE
        /\ last = NoAction
        /\ stored = item
        /\ logged = ""
        /\ unsaved = <<>>

NextStore ==
    \/ LoadCategories(stored)
    \/ \E n \in 1..MaxCustom : AddCategoryUnsaved(n)
    \/ \E n \in 1..MaxCustom : UpdateCategoryUnsaved(n)
    \/ \E n \in 1..MaxCustom : RemoveCategoryUnsaved(n)
    \/ SetItemServed

SpecStore == InitStore /\ [][NextStore]_vars

-----------------------------------------------------------------------------
(* The load at mount runs to its end: getItem settles, resolved or          *)
(* rejected, and the continuation of the await is run by the event loop,    *)
(* whatever else is invoked in the meantime.                                *)

LoadCategoriesSettles == \E item \in {stored, Unreadable} : LoadCategories(item)

NextLoad ==
    \/ LoadCategoriesSettles
    \/ \E n \in 1..MaxCustom, rejects \in BOOLEAN : AddCategory(n, rejects)
    \/ \E n \in 1..MaxCustom, rejects \in BOOLEAN : RemoveCategory(n, rejects)
    \/ EndGame
    \/ StartNewGame

SpecLoad == InitCategories /\ [][NextLoad]_vars /\ WF_vars(LoadCategoriesSettles)

-----------------------------------------------------------------------------
(* Properties. *)

\* The last action was a startGame or a nextRound that ran its updater.
RoundJustSetUp == last.op \in {"startGame", "nextRound"} /\ last.arg = 1

PlayerCount == Len(state.players)

\* The player at index i is an imposter of the round.
IsImposterIndex(i) == \E k \in 1..Len(state.imposterIndices) : state.imposterIndices[k] = i

\* id is the id of an imposter of the round.
IsImposterId(id) ==
    \E k \in 1..Len(state.imposterIndices) :
        /\ state.imposterIndices[k] + 1 \in 1..PlayerCount
        /\ state.players[state.imposterIndices[k] + 1].id = id

\* The number of entries of votes that target id.
VotesFor(id) == Cardinality({ e \in state.votes : e[2] = id })

\* The number of entries of votes whose target is not an imposter id.
WrongVotes == Cardinality({ e \in state.votes : ~IsImposterId(e[2]) })

\* s holds each of 0..n-1 exactly once and nothing else.
IsPermutationOfIndices(s, n) ==
    /\ Len(s) = n
    /\ \A i \in 0..(n - 1) : Cardinality({ k \in 1..Len(s) : s[k] = i }) = 1

\* C1: the phase only moves PLAYER_SETUP -> SETUP -> REVEAL (by startGame) ->
\* DISCUSSION -> VOTING -> RESULTS, DISCUSSION -> RESULTS with voting disabled,
\* RESULTS -> REVEAL by nextRound, anywhere -> SETUP by endGame and
\* anywhere -> PLAYER_SETUP by startNewGame.
PhaseMoveAllowed(p, q, op, votingEnabled) ==
    \/ p = q
    \/ p = PLAYER_SETUP /\ q = SETUP
    \/ p = SETUP /\ q = REVEAL /\ op = "startGame"
    \/ p = REVEAL /\ q = DISCUSSION
    \/ p = DISCUSSION /\ q = VOTING
    \/ p = VOTING /\ q = RESULTS
    \/ p = DISCUSSION /\ q = RESULTS /\ ~votingEnabled
    \/ p = RESULTS /\ q = REVEAL /\ op = "nextRound"
    \/ q = SETUP /\ op = "endGame"
    \/ q = PLAYER_SETUP /\ op = "startNewGame"

C1_PhaseOrder ==
    [][PhaseMoveAllowed(state.phase, state'.phase, last'.op, state.isVotingEnabled)]_vars

\* C2: after a round setup, when some player is not an imposter, the first
\* revealer revealOrder[0] is not an imposter.
C2_FirstRevealerNotImposter ==
    (RoundJustSetUp /\ \E i \in 0..(PlayerCount - 1) : ~IsImposterIndex(i))
        => ~IsImposterIndex(state.revealOrder[1])

\* C3: after a round setup, imposterIndices has exactly imposterCount
\* elements, pairwise distinct, each an index of a player.
C3_RoleCount ==
    RoundJustSetUp =>
        /\ Len(state.imposterIndices) = state.imposterCount
        /\ \A j, k \in 1..Len(state.imposterIndices) :
              j # k => state.imposterIndices[j] # state.imposterIndices[k]
        /\ \A k \in 1..Len(state.imposterIndices) :
              state.imposterIndices[k] \in 0..(PlayerCount - 1)

\* C4: revealOrder and playerOrder are permutations of the player indices in
\* every state.
C4_OrdersArePermutations ==
    /\ IsPermutationOfIndices(state.revealOrder, PlayerCount)
    /\ IsPermutationOfIndices(state.playerOrder, PlayerCount)

\* C5: imposterCount is at least 1 and, with 3 players or more, at most
\* floor(playerCount / 3), in every state.
C5_ImposterCountWithinRoster ==
    /\ state.imposterCount >= 1
    /\ PlayerCount >= 3 => state.imposterCount <= PlayerCount \div 3

\* C6: setImposterCount(n) with p players stores a value in
\* 1..max(1, floor(p / 3)), n itself when n is in that range, and changes no
\* other field.
C6_SetImposterCountClamps ==
    [][last'.op = "setImposterCount" =>
        LET n == last'.arg
            v == state'.imposterCount
            highest == Max(1, PlayerCount \div 3)
        IN  /\ v \in 1..highest
            /\ n \in 1..highest => v = n
            /\ state' = [state EXCEPT !.imposterCount = v]]_vars

\* C6: a request above the highest legal count, with 6 players or more, has
\* been clamped to 2.
C6_Witness ==
    /\ last.op = "setImposterCount"
    /\ PlayerCount >= 6
    /\ last.arg > PlayerCount \div 3
    /\ state.imposterCount = 2

\* Some target has strictly more votes than every other target and is an
\* imposter's id.
ImposterHasStrictPlurality ==
    \E t \in Targets(state.votes) :
        /\ IsImposterId(t)
        /\ \A u \in Targets(state.votes) \ {t} : VotesFor(u) < VotesFor(t)

\* C7: submitVotes finds the imposter caught exactly when one target has
\* strictly more votes than every other target and is an imposter's id,
\* whatever the order of the tally.
C7_CaughtIffStrictPluralityImposter ==
    (last.op = "submitVotes" /\ ~threw) => (caught <=> ImposterHasStrictPlurality)

\* C7: votes were submitted with an imposter tied for the highest count, and
\* the imposter was not caught.
C7_Witness ==
    /\ last.op = "submitVotes"
    /\ ~threw
    /\ ~caught
    /\ \E t, u \in Targets(state.votes) :
          /\ t # u
          /\ IsImposterId(t)
          /\ VotesFor(t) = VotesFor(u)
          /\ \A w \in Targets(state.votes) : VotesFor(w) <= VotesFor(t)

\* The step is a submitVotes that ran its updater.
VotesSubmitted == last'.op = "submitVotes" /\ ~threw' /\ state'.phase = RESULTS /\ state.phase = VOTING

\* The score the step adds to the player at index i.
ScoreDelta(i) == state'.players[i + 1].score - state.players[i + 1].score

\* C8: when the imposter is caught, no imposter's score changes.
C8_ImpostersGainNothingWhenCaught ==
    [][(VotesSubmitted /\ caught') =>
        \A i \in 0..(PlayerCount - 1) : IsImposterIndex(i) => ScoreDelta(i) = 0]_vars

\* C9: when the imposter is caught, a non-imposter whose vote targets an
\* imposter gains 2 and every other non-imposter gains 0.
C9_TownReward ==
    [][(VotesSubmitted /\ caught') =>
        \A i \in 0..(PlayerCount - 1) :
            ~IsImposterIndex(i) =>
                ScoreDelta(i) =
                    IF \E e \in state.votes : e[1] = state.players[i + 1].id /\ IsImposterId(e[2])
                    THEN 2 ELSE 0]_vars

\* C9: the imposter was caught; one non-imposter voted for an imposter and has
\* 2 points, another has no entry in votes and has none.
C9_Witness ==
    /\ last.op = "submitVotes"
    /\ ~threw
    /\ caught
    /\ \E i, j \in 0..(PlayerCount - 1) :
          /\ ~IsImposterIndex(i)
          /\ ~IsImposterIndex(j)
          /\ IsImposterId(VoteOf(state.votes, state.players[i + 1].id))
          /\ state.players[i + 1].score = 2
          /\ state.players[j + 1].id \notin Voters(state.votes)
          /\ state.players[j + 1].score = 0

\* C10: when the imposter is not caught, every player flagged isImposter gains
\* floor(wrongVoteCount / imposterCount) and every other player gains 0.
C10_ImposterShare ==
    [][(VotesSubmitted /\ ~caught') =>
        \A i \in 0..(PlayerCount - 1) :
            ScoreDelta(i) =
                IF state.players[i + 1].isImposter
                THEN WrongVotes \div state.imposterCount
                ELSE 0]_vars

\* The ids of the players that have an entry in votes.
PlayersWithVote == { id \in RosterIds : id \in Voters(state.votes) }

\* C11: in a submitVotes step the tally of a target counts exactly the players
\* with an entry for it, the wrong votes count exactly the players with an
\* entry for a non-imposter, a player without an entry adds to neither, and
\* no player's score goes down.
C11_AbstainersNotCountedNoPenalty ==
    [][VotesSubmitted =>
        /\ \A t \in Targets(state.votes) :
              voteCounts(state.votes)[t] =
                  Cardinality({ id \in PlayersWithVote : VoteOf(state.votes, id) = t })
        /\ wrongVoteCount(state) =
              Cardinality({ id \in PlayersWithVote : ~IsImposterId(VoteOf(state.votes, id)) })
        /\ \A i \in 0..(PlayerCount - 1) : ScoreDelta(i) >= 0]_vars

\* C11: votes were submitted while a player had no entry in votes and another
\* player's entry was a wrong vote that paid the imposters.
C11_Witness ==
    /\ last.op = "submitVotes"
    /\ ~threw
    /\ ~caught
    /\ \E i \in 1..PlayerCount : state.players[i].id \notin Voters(state.votes)
    /\ WrongVotes >= 1
    /\ \E i \in 1..PlayerCount : state.players[i].isImposter /\ state.players[i].score >= 1

\* The ids of the roster of s and the score of the player with a given id.
IdsOf(s) == { s.players[i].id : i \in 1..Len(s.players) }
ScoreById(s, id) == (CHOOSE p \in Range(s.players) : p.id = id).score

\* C12: for a player on the roster before and after a step, the score is the
\* same unless the step is submitVotes, endGame or startNewGame, and
\* submitVotes does not lower it.
C12_ScoresKeptExceptEndGame ==
    [][\A id \in IdsOf(state) \cap IdsOf(state') :
          /\ last'.op \notin {"submitVotes", "endGame", "startNewGame"}
                => ScoreById(state', id) = ScoreById(state, id)
          /\ last'.op = "submitVotes" => ScoreById(state', id) >= ScoreById(state, id)]_vars

\* C12: nextRound has set up a round and a player still has the points of the
\* round before.
C12_Witness ==
    /\ last.op = "nextRound"
    /\ last.arg = 1
    /\ state.phase = REVEAL
    /\ state.roundNumber >= 2
    /\ \E i \in 1..PlayerCount : state.players[i].score >= 2

\* C13: a submitVotes invoked once the phase is RESULTS, the round's scoring
\* already applied, changes no score.
C13_ScoringOncePerRound ==
    [][(last'.op = "submitVotes" /\ ~threw' /\ state.phase = RESULTS) =>
        \A i \in 0..(PlayerCount - 1) : ScoreDelta(i) = 0]_vars

\* No voter id has two entries in votes.
OneTargetPerVoter(votes) == \A e, f \in votes : e[1] = f[1] => e = f

\* C14: votes holds one target per voter at most; castVote(v, t) puts t in
\* place of v's entry and leaves the other entries alone; and in RESULTS, the
\* votes of the round submitted, castVote leaves votes as it is.
C14_VotesUpsertUntilSubmitted ==
    [][last'.op = "castVote" =>
        /\ OneTargetPerVoter(state'.votes)
        /\ { e \in state'.votes : e[1] # last'.arg } = { e \in state.votes : e[1] # last'.arg }
        /\ last'.arg \in Voters(state'.votes)
        /\ state.phase = RESULTS => state'.votes = state.votes]_vars

\* C15: a startGame invoked while no category is selected or fewer than 3
\* players are registered changes no field of the state and raises no error.
C15_StartGameNoOp ==
    [][(last'.op = "startGame"
            /\ (Len(state.selectedCategories) = 0 \/ Len(state.players) < 3)) =>
        /\ state' = state
        /\ ~threw']_vars

\* C15: startGame has been invoked with 3 players and no category selected.
C15_Witness ==
    /\ last.op = "startGame"
    /\ ~threw
    /\ Len(state.selectedCategories) = 0
    /\ PlayerCount >= 3
    /\ state.phase = SETUP

\* The match configuration of s.
Configuration(s) ==
    <<s.selectedCategories, s.imposterCount, s.imposterWordMode,
      s.randomizeStartingPlayer, s.isVotingEnabled>>

\* The id, name and score of every player of s, in roster order.
Scoreboard(s) ==
    [i \in 1..Len(s.players) |-> <<s.players[i].id, s.players[i].name, s.players[i].score>>]

\* C16: a nextRound with a category selected adds 1 to roundNumber, sets the
\* phase REVEAL and keeps every player's id, name and score and the
\* configuration; with no category selected it changes nothing.
C16_NextRoundFrame ==
    [][last'.op = "nextRound" =>
        IF Len(state.selectedCategories) = 0
        THEN state' = state /\ ~threw'
        ELSE /\ state'.roundNumber = state.roundNumber + 1
             /\ state'.phase = REVEAL
             /\ Scoreboard(state') = Scoreboard(state)
             /\ Configuration(state') = Configuration(state)]_vars

\* C16: nextRound has set up round 2 from the RESULTS of round 1, a score of
\* that round still on the board.
C16_Witness ==
    /\ last.op = "nextRound"
    /\ last.arg = 1
    /\ state.roundNumber = 2
    /\ state.phase = REVEAL
    /\ \E i \in 1..PlayerCount : state.players[i].score >= 1

RoundState(s) ==
    <<s.roundNumber, s.realWord, s.imposterWord, s.revealPass, s.allHints, s.hintWord,
      s.hintGiverIndex, s.imposterIndices, s.currentPlayerIndex, s.currentVoterIndex,
      s.startingPlayerIndex, s.revealedPlayers, s.votes, s.playerOrder, s.revealOrder,
      s.lastFirstPlayerIndex>>

\* C18: after endGame the phase is SETUP, the roster has the same players in
\* the same order with their ids and names, every score 0 and every
\* isImposter false, the configuration is unchanged and the round state is
\* that of the initial state.
C18_EndGameResetScope ==
    [][last'.op = "endGame" =>
        /\ state'.phase = SETUP
        /\ Len(state'.players) = Len(state.players)
        /\ \A i \in 1..Len(state.players) :
              /\ state'.players[i].id = state.players[i].id
              /\ state'.players[i].name = state.players[i].name
              /\ state'.players[i].score = 0
              /\ ~state'.players[i].isImposter
        /\ Configuration(state') = Configuration(state)
        /\ RoundState(state') = RoundState(initialState)]_vars

\* C18: endGame has left a roster of RoundPlayers players in SETUP with no
\* votes, and the imposter count, the word mode, the starting-player flag and
\* the voting flag are still away from their initial values.
C18_Witness ==
    /\ last.op = "endGame"
    /\ state.phase = SETUP
    /\ PlayerCount = RoundPlayers
    /\ state.imposterCount = 2
    /\ state.imposterWordMode = "category_hint"
    /\ ~state.randomizeStartingPlayer
    /\ ~state.isVotingEnabled
    /\ state.votes = {}

C20_GetPlayerWord ==
    [][last'.op = "getPlayerWord" =>
        /\ state' = state
        /\ getPlayerWord(state, last'.arg) =
              IF ~IsImposterIndex(last'.arg) THEN state.realWord
              ELSE IF state.imposterWordMode = "hidden" THEN state.imposterWord
              ELSE ""]_vars

\* C20: getPlayerWord was called for an imposter in category_hint mode, the
\* words of the round being two different words, and gave the empty string.
C20_Witness ==
    /\ last.op = "getPlayerWord"
    /\ IsImposterIndex(last.arg)
    /\ state.imposterWordMode = "category_hint"
    /\ state.realWord # state.imposterWord
    /\ state.imposterWord # ""
    /\ getPlayerWord(state, last.arg) = ""

\* C21: a removePlayer invoked while the roster has 3 players or fewer changes
\* no field, so removePlayer never takes the roster below 3 players.
C21_RemovePlayerKeepsMinimum ==
    [][(last'.op = "removePlayer" /\ Len(state.players) <= 3) => state' = state]_vars

\* C22: the guards of startGame and nextRound see the state the action before
\* them produced: a startGame invoked while that state has no selected
\* category or fewer than 3 players, and a nextRound invoked while it has no
\* selected category, change nothing and raise no error, also when no render
\* has happened since that action.
C22_GuardsReadCommittedState ==
    [][((last'.op = "startGame"
            /\ (Len(state.selectedCategories) = 0 \/ Len(state.players) < 3))
        \/ (last'.op = "nextRound" /\ Len(state.selectedCategories) = 0)) =>
        /\ state' = state
        /\ ~threw']_vars

\* The phase, the roster and the round state of s.
MatchState(s) == <<s.phase, s.players, RoundState(s)>>

C24_FirstRevealerNotRepeated ==
    [][(last'.op = "nextRound" /\ last'.arg = 1 /\ ~threw'
            /\ PlayerCount - state.imposterCount > 1) =>
        state'.revealOrder[1] # state.lastFirstPlayerIndex]_vars

\* C25: in every state whose phase is REVEAL, DISCUSSION, VOTING or RESULTS,
\* imposterIndices has exactly imposterCount elements.
C25_ImposterIndicesMatchCount ==
    state.phase \in {REVEAL, DISCUSSION, VOTING, RESULTS} =>
        Len(state.imposterIndices) = state.imposterCount

\* C26: revealWord(i) leaves revealedPlayers[i] true and every other entry,
\* the phase, the turn indices and every other field as they were; invoked
\* again for an index already revealed it gives the state it was given.
C26_RevealWordIdempotent ==
    [][last'.op = "revealWord" =>
        LET i == last'.arg
        IN  /\ Len(state'.revealedPlayers) = Len(state.revealedPlayers)
            /\ state'.revealedPlayers[i + 1]
            /\ \A j \in 1..Len(state.revealedPlayers) :
                  j # i + 1 => state'.revealedPlayers[j] = state.revealedPlayers[j]
            /\ state' = [state EXCEPT !.revealedPlayers = state'.revealedPlayers]
            /\ state.revealedPlayers[i + 1] => state' = state]_vars

\* C26: revealWord was invoked for a player whose turn is over: the entry is
\* true, an entry revealed earlier is still true, another is still false, and
\* the turn index is where nextPlayerReveal left it.
C26_Witness ==
    /\ last.op = "revealWord"
    /\ state.revealedPlayers[last.arg + 1]
    /\ \E j, k \in 1..Len(state.revealedPlayers) :
          /\ j # last.arg + 1
          /\ k # last.arg + 1
          /\ state.revealedPlayers[j]
          /\ ~state.revealedPlayers[k]
    /\ state.phase = REVEAL
    /\ state.currentPlayerIndex = 1
    /\ state.revealOrder[1] = last.arg

\* a is b or the beginning of b.
IsPrefix(a, b) == Len(a) <= Len(b) /\ SubSeq(b, 1, Len(a)) = a

\* C27: addHint(text) gives allHints with text added as its last element, and
\* every action other than startGame, nextRound, endGame and startNewGame
\* leaves the allHints it found as the beginning of the allHints it leaves.
C27_HintsAppendOnly ==
    [][/\ last'.op = "addHint" =>
              state'.allHints = Append(state.allHints, HintTexts[last'.arg])
       /\ last'.op \notin {"startGame", "nextRound", "endGame", "startNewGame"} =>
              IsPrefix(state.allHints, state'.allHints)]_vars

\* C27: a second hint was added during the reveal turns and stands after the
\* first one.
C27_Witness ==
    /\ last.op = "addHint"
    /\ state.phase = REVEAL
    /\ state.allHints = <<"hint", "warm">>

\* The players that have had a reveal turn in the REVEAL phase of s, the
\* current one included.
TurnsTaken(s) == { s.revealOrder[k + 1] : k \in 0..s.currentPlayerIndex }

\* C28: during REVEAL, with the roster of the round setup, currentPlayerIndex
\* is in [0, n) and the turn is that of player revealOrder[currentPlayerIndex];
\* a nextPlayerReveal with currentPlayerIndex + 1 < n adds 1 to
\* currentPlayerIndex, keeps the phase REVEAL and gives the turn to a player
\* that has not had one; otherwise it sets the phase DISCUSSION and
\* currentPlayerIndex 0, every player having had exactly one turn.
C28_RevealTurns ==
    [][state.phase = REVEAL =>
        /\ state.currentPlayerIndex \in 0..(PlayerCount - 1)
        /\ actualPlayerIndex(state) = state.revealOrder[state.currentPlayerIndex + 1]
        /\ actualPlayerIndex(state) \in 0..(PlayerCount - 1)
        /\ Cardinality(TurnsTaken(state)) = state.currentPlayerIndex + 1
        /\ last'.op = "nextPlayerReveal" =>
              IF state.currentPlayerIndex + 1 < PlayerCount
              THEN /\ state'.currentPlayerIndex = state.currentPlayerIndex + 1
                   /\ state'.phase = REVEAL
                   /\ actualPlayerIndex(state') \notin TurnsTaken(state)
              ELSE /\ state'.phase = DISCUSSION
                   /\ state'.currentPlayerIndex = 0
                   /\ TurnsTaken(state) = 0..(PlayerCount - 1)]_vars

\* C28: the last nextPlayerReveal of a round whose reveal order is not the
\* roster order has opened the discussion, every player having revealed the
\* word.
C28_Witness ==
    /\ last.op = "nextPlayerReveal"
    /\ state.phase = DISCUSSION
    /\ state.currentPlayerIndex = 0
    /\ state.revealOrder[1] # 0
    /\ \A j \in 1..PlayerCount : state.revealedPlayers[j]

\* The step invokes nextVoter, on its own or from the voting screen.
NextVoterInvoked ==
    \/ last'.op = "nextVoter"
    \/ last'.op = "handleVote" /\ last'.arg # Null

\* C29: nextVoter leaves the phase as it is; with currentVoterIndex + 1 below
\* the player count it adds 1 to currentVoterIndex and returns true,
\* otherwise it changes nothing and returns false (the vote the voting
\* screen casts in the same step apart).
C29_NextVoterAdvancesAndReports ==
    [][NextVoterInvoked =>
        /\ state'.phase = state.phase
        /\ IF state.currentVoterIndex + 1 < PlayerCount
           THEN /\ state'.currentVoterIndex = state.currentVoterIndex + 1
                /\ last'.arg = ReturnedTrue
           ELSE /\ state' = [state EXCEPT !.votes = state'.votes]
                /\ last'.arg = ReturnedFalse]_vars

\* The part of C29 on the state alone: the phase is kept, the index moves by
\* 1 while a voter is left and stays in [0, playerCount) during VOTING.
NextVoterStatePart ==
    [][/\ state.phase = VOTING => state.currentVoterIndex \in 0..(PlayerCount - 1)
       /\ NextVoterInvoked =>
              /\ state'.phase = state.phase
              /\ IF state.currentVoterIndex + 1 < PlayerCount
                 THEN state'.currentVoterIndex = state.currentVoterIndex + 1
                 ELSE state' = [state EXCEPT !.votes = state'.votes]]_vars

\* C30: startDiscussion with isVotingEnabled true sets the phase VOTING and
\* currentVoterIndex 0; with isVotingEnabled false it sets the phase RESULTS
\* and changes nothing else: every score and the votes are as before.
C30_StartDiscussionBranches ==
    [][last'.op = "startDiscussion" =>
        IF state.isVotingEnabled
        THEN /\ state'.phase = VOTING
             /\ state'.currentVoterIndex = 0
        ELSE /\ state'.phase = RESULTS
             /\ Scoreboard(state') = Scoreboard(state)
             /\ state'.votes = state.votes
             /\ state' = [state EXCEPT !.phase = RESULTS]]_vars

\* C30: startDiscussion was invoked with voting disabled in the second
\* round: the phase is RESULTS, the points of the first round and the votes
\* cast so far are in place.
C30_Witness ==
    /\ last.op = "startDiscussion"
    /\ ~state.isVotingEnabled
    /\ state.phase = RESULTS
    /\ state.roundNumber = 2
    /\ state.votes # {}
    /\ \E i \in 1..PlayerCount : state.players[i].score >= 1

\* The ids of the selected categories of s.
SelectedIds(s) == { s.selectedCategories[k].id : k \in 1..Len(s.selectedCategories) }

\* C31: selectedCategories holds no two entries with the same id; toggling a
\* category whose id is not selected adds it after the others, toggling one
\* whose id is selected removes the entry with that id and keeps the others;
\* toggling the same category twice gives back the same set of selected ids;
\* and toggling two categories of different ids gives the same selected set
\* in either order.
C31_ToggleById ==
    /\ \A j, k \in 1..Len(state.selectedCategories) :
          j # k => state.selectedCategories[j].id # state.selectedCategories[k].id
    /\ \A c \in allCategories(state) :
          LET once == toggleCategory(state, c)
              twice == toggleCategory(once, c)
              others(x) == x.id # c.id
          IN  /\ IF c.id \in SelectedIds(state)
                 THEN once.selectedCategories = SelectSeq(state.selectedCategories, others)
                 ELSE once.selectedCategories = Append(state.selectedCategories, c)
              /\ once = [state EXCEPT !.selectedCategories = once.selectedCategories]
              /\ SelectedIds(twice) = SelectedIds(state)
    /\ \A c, d \in allCategories(state) :
          c.id # d.id =>
              Range(toggleCategory(toggleCategory(state, c), d).selectedCategories)
                  = Range(toggleCategory(toggleCategory(state, d), c).selectedCategories)

\* C31: a category was toggled off while two others stay selected, one of
\* them a custom category renamed since it was selected.
C31_Witness ==
    /\ last.op = "toggleCategory"
    /\ Len(state.selectedCategories) = 2
    /\ "food" \notin SelectedIds(state)
    /\ \E c \in Range(state.customCategories) :
          /\ c.name = "Renamed"
          /\ c.id \in SelectedIds(state)
          /\ c \notin Range(state.selectedCategories)

\* Values of the string field realWord.
RealWords == {"pizza", "pasta", "golf", ""}

\* C32: for every index in imposterIndices, getPlayerWord gives the same
\* result in the state and in every state that differs from it in realWord
\* only, in every imposter word mode.
C32_ImposterWordIndependentOfRealWord ==
    \A i \in 0..(MaxPlayers - 1) :
        IsImposterIndex(i) =>
            \A w \in RealWords :
                getPlayerWord([state EXCEPT !.realWord = w], i) = getPlayerWord(state, i)

\* C32: getPlayerWord was called for an imposter in hidden mode and gave the
\* imposter word, which is not the real word of the round.
C32_Witness ==
    /\ last.op = "getPlayerWord"
    /\ IsImposterIndex(last.arg)
    /\ state.imposterWordMode = "hidden"
    /\ getPlayerWord(state, last.arg) = state.imposterWord
    /\ state.imposterWord # state.realWord
    /\ \E w \in RealWords : w # state.realWord /\ w # state.imposterWord

\* C33: after a round setup startingPlayerIndex is null when
\* randomizeStartingPlayer is false and an index in [0, playerCount) when it
\* is true.
C33_StartingPlayerIndex ==
    RoundJustSetUp =>
        IF state.randomizeStartingPlayer
        THEN state.startingPlayerIndex \in 0..(PlayerCount - 1)
        ELSE state.startingPlayerIndex = Null

\* The same with a player on the roster.
StartingPlayerIndexWithPlayers ==
    (RoundJustSetUp /\ PlayerCount >= 1) =>
        IF state.randomizeStartingPlayer
        THEN state.startingPlayerIndex \in 0..(PlayerCount - 1)
        ELSE state.startingPlayerIndex = Null

\* C34: in every state every index stored in imposterIndices is smaller than
\* the number of players, and submitVotes never reads a missing player, also
\* when removePlayer was invoked after the round setup.
C34_ImposterIndicesWithinRoster ==
    /\ \A k \in 1..Len(state.imposterIndices) :
          state.imposterIndices[k] < PlayerCount
    /\ ~(threw /\ last.op = "submitVotes")

\* C35: in every state the player at roster index i has isImposter = true
\* if and only if i is in imposterIndices.
C35_RoleRepresentationsAgree ==
    \A i \in 0..(PlayerCount - 1) :
        state.players[i + 1].isImposter <=> IsImposterIndex(i)

\* C36: every state whose phase is REVEAL, DISCUSSION, VOTING or RESULTS has
\* at least 3 players and at least one player who is not an imposter.
C36_RoundHasEnoughPlayers ==
    state.phase \in {REVEAL, DISCUSSION, VOTING, RESULTS} =>
        /\ PlayerCount >= 3
        /\ \E i \in 0..(PlayerCount - 1) :
              ~IsImposterIndex(i) /\ ~state.players[i + 1].isImposter

\* C37: revealPass equals 1 in every state; no action sets it to 2.
C37_RevealPassIsOne == state.revealPass = 1

\* A later round whose last reveal turn has ended the reveal phase.
C37_Witness ==
    /\ last.op = "nextPlayerReveal"
    /\ state.roundNumber >= 2
    /\ state.phase # REVEAL
    /\ state.revealPass = 1

\* C38: once the load and every outstanding save have completed, without an
\* error, the stored list equals customCategories.
C38_StoreMatchesMemory ==
    (~state.isLoadingCategories /\ unsaved = <<>>) =>
        stored.categories = state.customCategories

====
